---- MODULE Spec2Model ----
(***************************************************************************)
(* The iterative-resolution cache of zdns (Cache over ShardedCacheHash)    *)
(* and its statistics counters, as a state machine.  Resolution workers    *)
(* call the cache operations concurrently; every operation is split at     *)
(* the points where it touches shared state (the clock, a shard lock, the  *)
(* store), so that all interleavings the shard locks allow are explored.   *)
(***************************************************************************)
EXTENDS Integers, Sequences, FiniteSets, TLC

\* ------------------------------------------------------------------ bounds
MaxTime == 2      \* the clock runs 0..MaxTime (seconds)
MaxCalls == 3     \* cache operations invoked in one behaviour
MaxTTL == 2       \* the largest TTL of a record of the input universe
ShardCap == 1     \* entries one shard holds before Add evicts (cacheSize / shards)
NumShards == 2    \* shards of the store (4096 in Init, scaled down)

Workers == {"w1", "w2"}

\* ----------------------------------------------------------- DNS values
\* Domain names are sequences of labels, leftmost label first.
Com == <<"com">>
ACom == <<"a", "com">>
Org == <<"org">>

\* A value handed to the cache as interface{}: Kind "Answer" is the zdns
\* Answer struct (TTL, RrType, Name, Answer); any other Kind is a value
\* for which the cast a.(Answer) fails.
Val(kind, name, type, data, ttl) ==
    [Kind |-> kind, Name |-> name, RrType |-> type, Answer |-> data, TTL |-> ttl]
Ans(name, type, data, ttl) == Val("Answer", name, type, data, ttl)
NoVal == Val("None", <<>>, "", "", 0)

Nil == "nil"                    \* a nil *NameServer
NameServers == {"N1", "N2"}

Question(name, type) == [Name |-> name, Type |-> type]
NoQuestion == Question(<<>>, "")

questionFromAnswer(a) == Question(a.Name, a.RrType)

\* name is layer itself or a strict subdomain of it
nameIsBeneath(name, layer) ==
    /\ Len(layer) <= Len(name)
    /\ SubSeq(name, Len(name) - Len(layer) + 1, Len(name)) = layer

CachedKey(q, nameServer, isAuthority) ==
    [Question |-> q, NameServer |-> nameServer, IsAuthority |-> isAuthority]
NoKey == CachedKey(NoQuestion, "", FALSE)

TimedAnswer(a, expiresAt) == [Answer |-> a, ExpiresAt |-> expiresAt]

\* map[interface{}]TimedAnswer as the set of its (key, value) pairs
MapPut(m, k, ta) == {e \in m : e.k # k} \cup {[k |-> k, v |-> ta]}
MapDelete(m, ks) == {e \in m : e.k \notin ks}
MapKeys(m) == {e.k : e \in m}

\* What the store holds under a key; the casts unres.(CachedResult) succeed
\* on a value of this shape only.
CachedResult(answers) == [Shape |-> "CachedResult", Answers |-> answers]
IsCachedResult(v) == v.Shape = "CachedResult"

SingleQueryResult(answers, authorities, additional, resolver) ==
    [Answers |-> answers, Authorities |-> authorities,
     Additional |-> additional, Resolver |-> resolver]
EmptyRetv == SingleQueryResult({}, {}, {}, "")

\* A query response handed to CacheUpdate / SafeAddLayerNameServers: its
\* sections are slices, walked in order.
Response(answers, authorities, additional, authoritative) ==
    [Answers |-> answers, Authorities |-> authorities,
     Additional |-> additional, Flags |-> [Authoritative |-> authoritative]]
NoResult == Response(<<>>, <<>>, <<>>, FALSE)

\* ------------------------------------------------------------------ state
VARIABLES
    clock,    \* time.Now(), in seconds
    store,    \* IterativeCache: CachedKey -> CachedResult, present keys only
    lru,      \* recency order of the present keys, most recent first
    locks,    \* shard -> the worker holding its mutex, or "free"
    wk,       \* worker -> its position and locals in the operation it runs
    calls,    \* number of cache operations invoked so far
    added,    \* history: (answer, ns, entry point) of every upsert performed
    writes,   \* history: per (answer, ns) the expiry last written and the
              \* latest expiry any upsert since the last eviction promised
    lastLayer, \* history: per zone the response and clock reading of the
              \* SafeAddLayerNameServers call that wrote its snapshot last
    stats     \* CacheStatistics: the capture flag and the four counters

hist == <<added, writes, lastLayer>>

vars == <<clock, store, lru, locks, wk, calls, hist, stats>>

Shards == 0 .. (NumShards - 1)

ShardOf(k) ==
    (Len(k.Question.Name) + (IF k.IsAuthority THEN 1 ELSE 0)) % NumShards

Idle ==
    [op |-> "none", pc |-> "idle", answer |-> NoVal, ns |-> Nil,
     q |-> NoQuestion, layer |-> <<>>, key |-> NoKey, exp |-> 0,
     result |-> NoResult, nonAuth |-> FALSE,
     ca |-> CachedResult({}), todo |-> <<>>, ok |-> FALSE, now |-> 0,
     wrote |-> {},
     retv |-> EmptyRetv, found |-> FALSE]

\* A CacheStatistics with its counters at zero
CacheStatistics(flag) ==
    [ShouldCaptureStatistics |-> flag, Hits |-> 0, Misses |-> 0, Adds |-> 0,
     Ejects |-> 0]

\* The cache after Cache.Init, before any worker starts
NewCache ==
    /\ clock = 0
    /\ store = [k \in {} |-> CachedResult({})]
    /\ lru = <<>>
    /\ locks = [s \in Shards |-> "free"]
    /\ wk = [w \in Workers |-> Idle]
    /\ calls = 0
    /\ added = {}
    /\ writes = {}
    /\ lastLayer = {}

Init == NewCache /\ stats = CacheStatistics(TRUE)

\* ShouldCaptureStatistics is set by whoever builds the CacheStatistics.
InitStats == NewCache /\ stats \in {CacheStatistics(flag) : flag \in BOOLEAN}

\* --------------------------------------------------- ShardedCacheHash
\* Lock(key): blocks until the mutex of the key's shard is free.
Lock(w, k) ==
    /\ locks[ShardOf(k)] = "free"
    /\ locks' = [locks EXCEPT ![ShardOf(k)] = w]

Unlock(w, k) == locks' = [locks EXCEPT ![ShardOf(k)] = "free"]

Promote(l, k) == <<k>> \o SelectSeq(l, LAMBDA x : x # k)

\* The key Add(k, v) evicts: the least recently used other key of k's
\* shard, when the shard would hold more than ShardCap entries.
Victims(k) ==
    LET l == SelectSeq(Promote(lru, k), LAMBDA x : ShardOf(x) = ShardOf(k))
    IN  IF Len(l) > ShardCap THEN {l[Len(l)]} ELSE {}

StoreAfterAdd(k, v) ==
    [x \in (DOMAIN store \cup {k}) \ Victims(k) |-> IF x = k THEN v ELSE store[x]]

LruAfterAdd(k) == SelectSeq(Promote(lru, k), LAMBDA x : x \notin Victims(k))

\* The key the caller's arguments name, for the history variables.
ScopeKey(a, ns) ==
    CachedKey(Question(a.Name, a.RrType), IF ns = Nil THEN "" ELSE ns, FALSE)

LayerKey(layer) == CachedKey(Question(layer, "NS"), "", TRUE)

\* History bookkeeping of an eviction: the promises of the evicted keys end.
Surviving(victims) == {e \in writes : ScopeKey(e.ans, e.ns) \notin victims}

\* History bookkeeping of one upsert of answer a under ns with expiry exp.
Upserted(a, ns, exp, victims) ==
    LET old == {e \in Surviving(victims) : e.ans = a /\ e.ns = ns}
        max == IF \E e \in old : e.max > exp
               THEN (CHOOSE e \in old : TRUE).max ELSE exp
    IN  (Surviving(victims) \ old)
            \cup {[ans |-> a, ns |-> ns, last |-> exp, max |-> max]}

Via(s) == [safe |-> s.op # "AddCachedAnswer", layer |-> s.layer]

\* ------------------------------------------------------------ operations
\* log.Panic ends the process: the goroutines in flight may still run as
\* it goes down, but no operation is invoked any more.
Running == \A w \in Workers : wk[w].pc # "panic"

\* A worker between two operations invokes the next one.
Call(w) ==
    /\ Running
    /\ wk[w].pc \in {"idle", "done"}
    /\ calls < MaxCalls
    /\ calls' = calls + 1

\* Where control goes when AddCachedAnswer / SafeAddCachedAnswer returns:
\* back into CacheUpdate's loops, or to the caller of the cache (these
\* return nothing: the frame is gone).
Return(s) ==
    IF s.op = "CacheUpdate"
    THEN [s EXCEPT !.pc = "cu_next", !.answer = NoVal, !.key = NoKey,
                   !.exp = 0, !.ca = CachedResult({})]
    ELSE Idle

\* A read operation returns (retv, found) to its caller.
ReturnResult(s, retv, found) ==
    [Idle EXCEPT !.op = s.op, !.pc = "done", !.q = s.q, !.ns = s.ns,
                 !.layer = s.layer, !.now = s.now,
                 !.retv = retv, !.found = found]

\* An admission filter that lets every record type through.
CacheableAny(type) == TRUE

Cacheable(type) == type \in {"A", "AAAA", "NS", "DNAME", "CNAME"}

\* AddCachedAnswer building its key without the nameserver.
AddCachedAnswerEntryUnscoped(s, a, ns) ==
    IF a.Kind # "Answer" THEN Return(s)
    ELSE IF ~Cacheable(questionFromAnswer(a).Type) THEN Return(s)
    ELSE [s EXCEPT !.pc = "add_lock",
                   !.answer = a,
                   !.exp = clock + a.TTL,
                   !.ca = CachedResult({}),
                   !.key = CachedKey(questionFromAnswer(a), "", FALSE)]

\* AddCachedAnswer up to its Lock call: the cast, the admission filter,
\* the expiry from the clock, the key.
AddCachedAnswerEntry(s, a, ns) ==
    IF a.Kind # "Answer" THEN Return(s)
    ELSE IF ~Cacheable(questionFromAnswer(a).Type) THEN Return(s)
    ELSE [s EXCEPT !.pc = "add_lock",
                   !.answer = a,
                   !.exp = clock + a.TTL,
                   !.ca = CachedResult({}),
                   !.key = CachedKey(questionFromAnswer(a),
                                     IF ns # Nil THEN ns ELSE "", FALSE)]

AddCachedAnswer(w, a, ns) ==
    /\ Call(w)
    /\ wk' = [wk EXCEPT ![w] = AddCachedAnswerEntry(
                 [Idle EXCEPT !.op = "AddCachedAnswer", !.answer = a, !.ns = ns],
                 a, ns)]
    /\ UNCHANGED <<clock, store, lru, locks, hist, stats>>

\* AddCachedAnswer going on without taking the shard lock.
AddLockSkipped(w) ==
    /\ wk[w].pc = "add_lock"
    /\ wk' = [wk EXCEPT ![w].pc = "add_read"]
    /\ UNCHANGED <<calls, clock, store, lru, locks, hist, stats>>

AddLock(w) ==
    /\ wk[w].pc = "add_lock"
    /\ Lock(w, wk[w].key)
    /\ wk' = [wk EXCEPT ![w].pc = "add_read"]
    /\ UNCHANGED <<calls, clock, store, lru, hist, stats>>

\* GetNoMove and the cast of what it found
AddRead(w) ==
    /\ wk[w].pc = "add_read"
    /\ IF wk[w].key \notin DOMAIN store
       THEN /\ wk' = [wk EXCEPT ![w].pc = "add_write"]
            /\ UNCHANGED locks
       ELSE IF IsCachedResult(store[wk[w].key])
       THEN /\ wk' = [wk EXCEPT ![w].pc = "add_write", ![w].ca = store[wk[w].key]]
            /\ UNCHANGED locks
       ELSE \* log.Panic; the deferred Unlock runs as the panic unwinds
            /\ wk' = [wk EXCEPT ![w].pc = "panic"]
            /\ Unlock(w, wk[w].key)
    /\ UNCHANGED <<calls, clock, store, lru, hist, stats>>

\* ca.Answers[a] = ta; IterativeCache.Add(cacheKey, ca)
AddWrite(w) ==
    LET s == wk[w]
        ca == CachedResult(MapPut(s.ca.Answers, s.answer,
                                  TimedAnswer(s.answer, s.exp)))
    IN  /\ s.pc = "add_write"
        /\ store' = StoreAfterAdd(s.key, ca)
        /\ lru' = LruAfterAdd(s.key)
        /\ wk' = [wk EXCEPT ![w].pc = "add_unlock", ![w].ca = ca,
                            ![w].wrote = s.wrote \cup {s.answer}]
        /\ added' = added \cup {[ans |-> s.answer, ns |-> s.ns, via |-> Via(s)]}
        /\ writes' = Upserted(s.answer, s.ns, s.exp, Victims(s.key))
        /\ lastLayer' = {e \in lastLayer : LayerKey(e.layer) \notin Victims(s.key)}
        /\ UNCHANGED <<calls, clock, locks, stats>>

\* the deferred Unlock, and the return
AddUnlock(w) ==
    /\ wk[w].pc = "add_unlock"
    /\ Unlock(w, wk[w].key)
    /\ wk' = [wk EXCEPT ![w] = Return(wk[w])]
    /\ UNCHANGED <<calls, clock, store, lru, hist, stats>>

GetCachedResult(w, q, ns) ==
    /\ Call(w)
    /\ wk' = [wk EXCEPT ![w] =
                 [Idle EXCEPT !.op = "GetCachedResult", !.q = q, !.ns = ns,
                              !.pc = "get_lock",
                              !.key = CachedKey(q, IF ns # Nil THEN ns ELSE "", FALSE)]]
    /\ UNCHANGED <<clock, store, lru, locks, hist, stats>>

GetLock(w) ==
    /\ wk[w].pc = "get_lock"
    /\ Lock(w, wk[w].key)
    /\ wk' = [wk EXCEPT ![w].pc = "get_read"]
    /\ UNCHANGED <<calls, clock, store, lru, hist, stats>>

\* cachedAnswer.ExpiresAt.Before(now)
Expired(ta, now) == ta.ExpiresAt < now

\* Get, and on a hit the walk over the stored answers: the expired ones
\* are deleted from the stored map, the others appended to retv.Answers
\* (map iteration order is unspecified: the slice is kept as a set).
GetRead(w) ==
    LET s == wk[w]
        k == s.key
    IN  /\ s.pc = "get_read"
        /\ IF k \notin DOMAIN store
           THEN /\ wk' = [wk EXCEPT ![w].pc = "get_unlock", ![w].ok = FALSE,
                                    ![w].now = clock, ![w].retv = EmptyRetv]
                /\ UNCHANGED <<store, lru>>
           ELSE IF ~IsCachedResult(store[k])
           THEN \* log.Panic; Unlock is not deferred here: the lock stays held
                /\ wk' = [wk EXCEPT ![w].pc = "panic"]
                /\ lru' = Promote(lru, k)
                /\ UNCHANGED store
           ELSE LET m == store[k].Answers
                    dead == {e.k : e \in {x \in m : Expired(x.v, clock)}}
                    live == {e.v.Answer : e \in {x \in m : ~Expired(x.v, clock)}}
                IN  /\ store' = [store EXCEPT ![k] = CachedResult(MapDelete(m, dead))]
                    /\ lru' = Promote(lru, k)
                    /\ wk' = [wk EXCEPT ![w].pc = "get_unlock", ![w].ok = TRUE,
                                        ![w].now = clock,
                                        ![w].retv = SingleQueryResult(live, {}, {}, "")]
        /\ UNCHANGED <<calls, clock, locks, hist, stats>>

\* GetCachedResult returning a hit whenever the entry was found.
GetUnlockUnchecked(w) ==
    LET s == wk[w]
    IN  /\ s.pc = "get_unlock"
        /\ Unlock(w, s.key)
        /\ wk' = [wk EXCEPT ![w] =
                     ReturnResult(s, [s.retv EXCEPT !.Resolver =
                                         IF s.ns # Nil THEN s.ns ELSE ""],
                                  s.ok)]
        /\ UNCHANGED <<calls, clock, store, lru, hist, stats>>

\* GetCachedResult returning with the shard lock still held.
GetReturnLocked(w) ==
    LET s == wk[w]
    IN  /\ s.pc = "get_unlock"
        /\ wk' = [wk EXCEPT ![w] =
                     IF ~s.ok \/ s.retv.Answers = {}
                     THEN ReturnResult(s, EmptyRetv, FALSE)
                     ELSE ReturnResult(s, s.retv, TRUE)]
        /\ UNCHANGED <<calls, clock, store, lru, locks, hist, stats>>

\* Unlock, the empty-response check, the Resolver annotation, the return
GetUnlock(w) ==
    LET s == wk[w]
        empty == /\ s.retv.Answers = {}
                 /\ s.retv.Authorities = {}
                 /\ s.retv.Additional = {}
    IN  /\ s.pc = "get_unlock"
        /\ Unlock(w, s.key)
        /\ wk' = [wk EXCEPT ![w] =
                     IF ~s.ok \/ empty
                     THEN ReturnResult(s, EmptyRetv, FALSE)
                     ELSE ReturnResult(s, [s.retv EXCEPT !.Resolver =
                                             IF s.ns # Nil THEN s.ns ELSE ""],
                                       TRUE)]
        /\ UNCHANGED <<calls, clock, store, lru, hist, stats>>

\* SafeAddCachedAnswer without its poison check.
SafeAddCachedAnswerEntryUnguarded(s, a, ns, layer) ==
    IF a.Kind # "Answer" THEN Return(s)
    ELSE AddCachedAnswerEntry(s, a, ns)

\* SafeAddCachedAnswer giving up the rest of the response at the first
\* record it drops.
SafeAddCachedAnswerEntryAborting(s, a, ns, layer) ==
    IF a.Kind # "Answer" \/ ~nameIsBeneath(a.Name, layer)
    THEN Return([s EXCEPT !.todo = <<>>])
    ELSE AddCachedAnswerEntry(s, a, ns)

\* SafeAddCachedAnswer: the cast and the poison check, then AddCachedAnswer
SafeAddCachedAnswerEntry(s, a, ns, layer) ==
    IF a.Kind # "Answer" THEN Return(s)
    ELSE IF ~nameIsBeneath(a.Name, layer) THEN Return(s)
    ELSE AddCachedAnswerEntry(s, a, ns)

SafeAddCachedAnswer(w, a, ns, layer) ==
    /\ Call(w)
    /\ wk' = [wk EXCEPT ![w] = SafeAddCachedAnswerEntry(
                 [Idle EXCEPT !.op = "SafeAddCachedAnswer", !.answer = a,
                              !.ns = ns, !.layer = layer],
                 a, ns, layer)]
    /\ UNCHANGED <<clock, store, lru, locks, hist, stats>>

\* CacheUpdate caching the Answer section whatever the flags say.
CacheUpdateOrderUngated(result, cacheNonAuthoritativeAns) ==
    result.Additional \o result.Authorities \o result.Answers

\* The records CacheUpdate hands to SafeAddCachedAnswer, in its order.
CacheUpdateOrder(result, cacheNonAuthoritativeAns) ==
    result.Additional \o result.Authorities
        \o (IF result.Flags.Authoritative \/ cacheNonAuthoritativeAns
            THEN result.Answers ELSE <<>>)

CacheUpdate(w, layer, result, ns, cacheNonAuthoritativeAns) ==
    /\ Call(w)
    /\ wk' = [wk EXCEPT ![w] =
                 [Idle EXCEPT !.op = "CacheUpdate", !.pc = "cu_next",
                              !.layer = layer, !.ns = ns, !.result = result,
                              !.nonAuth = cacheNonAuthoritativeAns,
                              !.todo = CacheUpdateOrder(result,
                                                        cacheNonAuthoritativeAns)]]
    /\ UNCHANGED <<clock, store, lru, locks, hist, stats>>

\* One turn of CacheUpdate's loops: the next record goes through
\* SafeAddCachedAnswer; after the last one CacheUpdate returns.
CacheUpdateNext(w) ==
    LET s == wk[w]
    IN  /\ s.pc = "cu_next"
        /\ wk' = [wk EXCEPT ![w] =
                     IF s.todo = <<>>
                     THEN [Idle EXCEPT !.op = s.op, !.pc = "done",
                                       !.layer = s.layer, !.ns = s.ns,
                                       !.result = s.result,
                                       !.nonAuth = s.nonAuth,
                                       !.wrote = s.wrote]
                     ELSE SafeAddCachedAnswerEntry(
                              [s EXCEPT !.todo = Tail(s.todo)],
                              Head(s.todo), s.ns, s.layer)]
        /\ UNCHANGED <<calls, clock, store, lru, locks, hist, stats>>

Range(seq) == {seq[i] : i \in DOMAIN seq}

LayerType(type) == type \in {"NS", "A", "AAAA"}

\* The map SafeAddLayerNameServers builds from the Authority and Additional
\* sections (time.Now() is read once per record; one reading stands for all).
LayerTimedAns(result, now) ==
    {[k |-> a, v |-> TimedAnswer(a, now + a.TTL)] :
        a \in {x \in Range(result.Authorities \o result.Additional) :
                  x.Kind = "Answer" /\ LayerType(x.RrType)}}

\* SafeAddLayerNameServers keying the snapshot by the nameserver as well.
SafeAddLayerNameServersScoped(w, layer, result, ns, cacheNonAuthoritativeAns) ==
    /\ Call(w)
    /\ wk' = [wk EXCEPT ![w] =
                 [Idle EXCEPT !.op = "SafeAddLayerNameServers", !.pc = "ls_lock",
                              !.layer = layer, !.ns = ns, !.result = result,
                              !.nonAuth = cacheNonAuthoritativeAns,
                              !.now = clock,
                              !.ca = CachedResult(LayerTimedAns(result, clock)),
                              !.key = CachedKey(Question(layer, "NS"),
                                                IF ns # Nil THEN ns ELSE "", TRUE)]]
    /\ UNCHANGED <<clock, store, lru, locks, hist, stats>>

SafeAddLayerNameServers(w, layer, result, ns, cacheNonAuthoritativeAns) ==
    /\ Call(w)
    /\ wk' = [wk EXCEPT ![w] =
                 [Idle EXCEPT !.op = "SafeAddLayerNameServers", !.pc = "ls_lock",
                              !.layer = layer, !.ns = ns, !.result = result,
                              !.nonAuth = cacheNonAuthoritativeAns,
                              !.now = clock,
                              !.ca = CachedResult(LayerTimedAns(result, clock)),
                              !.key = CachedKey(Question(layer, "NS"), "", TRUE)]]
    /\ UNCHANGED <<clock, store, lru, locks, hist, stats>>

LayerLock(w) ==
    /\ wk[w].pc = "ls_lock"
    /\ Lock(w, wk[w].key)
    /\ wk' = [wk EXCEPT ![w].pc = "ls_write"]
    /\ UNCHANGED <<calls, clock, store, lru, hist, stats>>

\* History bookkeeping: the response whose snapshot a write for zone
\* layer replaces (NoResult when there is none).
Replaced(layer) ==
    IF \E e \in lastLayer : e.layer = layer
    THEN (CHOOSE e \in lastLayer : e.layer = layer).result
    ELSE NoResult

\* History bookkeeping: the nameserver argument of the call whose snapshot
\* a write for zone layer replaces (Nil when there is none).
ReplacedNs(layer) ==
    IF \E e \in lastLayer : e.layer = layer
    THEN (CHOOSE e \in lastLayer : e.layer = layer).ns
    ELSE Nil

\* A write that merges the new records into the stored snapshot.
LayerWriteMerged(w) ==
    LET s == wk[w]
        old == IF s.key \in DOMAIN store THEN store[s.key].Answers ELSE {}
    IN  /\ s.pc = "ls_write"
        /\ store' = StoreAfterAdd(s.key,
                        CachedResult(old \cup s.ca.Answers))
        /\ lru' = LruAfterAdd(s.key)
        /\ wk' = [wk EXCEPT ![w].pc = "ls_unlock"]
        /\ writes' = Surviving(Victims(s.key))
        /\ lastLayer' =
              {e \in lastLayer : e.layer # s.layer
                                 /\ LayerKey(e.layer) \notin Victims(s.key)}
                \cup {[layer |-> s.layer, result |-> s.result, ns |-> s.ns,
                       now |-> s.now, prev |-> Replaced(s.layer),
                       prevNs |-> ReplacedNs(s.layer)]}
        /\ UNCHANGED <<calls, clock, locks, added, stats>>

\* IterativeCache.Add(cacheKey, CachedResult{Answers: timedAns})
LayerWrite(w) ==
    LET s == wk[w]
    IN  /\ s.pc = "ls_write"
        /\ store' = StoreAfterAdd(s.key, s.ca)
        /\ lru' = LruAfterAdd(s.key)
        /\ wk' = [wk EXCEPT ![w].pc = "ls_unlock"]
        /\ writes' = Surviving(Victims(s.key))
        /\ lastLayer' =
              {e \in lastLayer : e.layer # s.layer
                                 /\ LayerKey(e.layer) \notin Victims(s.key)}
                \cup {[layer |-> s.layer, result |-> s.result, ns |-> s.ns,
                       now |-> s.now, prev |-> Replaced(s.layer),
                       prevNs |-> ReplacedNs(s.layer)]}
        /\ UNCHANGED <<calls, clock, locks, added, stats>>

LayerUnlock(w) ==
    /\ wk[w].pc = "ls_unlock"
    /\ Unlock(w, wk[w].key)
    /\ wk' = [wk EXCEPT ![w] = Idle]
    /\ UNCHANGED <<calls, clock, store, lru, hist, stats>>

\* GetLayerNameServers looking under the key of an ordinary entry.
GetLayerNameServersOrdinary(w, name) ==
    /\ Call(w)
    /\ wk' = [wk EXCEPT ![w] =
                 [Idle EXCEPT !.op = "GetLayerNameServers", !.pc = "gl_lock",
                              !.layer = name,
                              !.key = CachedKey(Question(name, "NS"), "", FALSE)]]
    /\ UNCHANGED <<clock, store, lru, locks, hist, stats>>

GetLayerNameServers(w, name) ==
    /\ Call(w)
    /\ wk' = [wk EXCEPT ![w] =
                 [Idle EXCEPT !.op = "GetLayerNameServers", !.pc = "gl_lock",
                              !.layer = name,
                              !.key = CachedKey(Question(name, "NS"), "", TRUE)]]
    /\ UNCHANGED <<clock, store, lru, locks, hist, stats>>

LayerGetLock(w) ==
    /\ wk[w].pc = "gl_lock"
    /\ Lock(w, wk[w].key)
    /\ wk' = [wk EXCEPT ![w].pc = "gl_read"]
    /\ UNCHANGED <<calls, clock, store, lru, hist, stats>>

\* A walk over the snapshot that leaves the expired records stored.
LayerGetReadUnpurged(w) ==
    LET s == wk[w]
        k == s.key
    IN  /\ s.pc = "gl_read"
        /\ IF k \notin DOMAIN store
           THEN /\ wk' = [wk EXCEPT ![w].pc = "gl_unlock", ![w].ok = FALSE,
                                    ![w].now = clock, ![w].retv = EmptyRetv]
                /\ UNCHANGED <<store, lru>>
           ELSE LET m == store[k].Answers
                    live == {e.v.Answer : e \in {x \in m : ~Expired(x.v, clock)}}
                IN  /\ lru' = Promote(lru, k)
                    /\ wk' = [wk EXCEPT
                                ![w].pc = "gl_unlock", ![w].ok = TRUE,
                                ![w].now = clock,
                                ![w].retv = SingleQueryResult({},
                                   {a \in live : a.RrType = "NS"},
                                   {a \in live : a.RrType \in {"A", "AAAA"}},
                                   "")]
                    /\ UNCHANGED store
        /\ UNCHANGED <<calls, clock, locks, hist, stats>>

\* Get, and on a hit the walk over the snapshot: expired records are
\* deleted from the stored map, NS records go to Authorities, A and AAAA
\* records to Additional, any other type is logged and left out
\* (time.Now() is read once per record; one reading stands for all).
LayerGetRead(w) ==
    LET s == wk[w]
        k == s.key
    IN  /\ s.pc = "gl_read"
        /\ IF k \notin DOMAIN store
           THEN /\ wk' = [wk EXCEPT ![w].pc = "gl_unlock", ![w].ok = FALSE,
                                    ![w].now = clock, ![w].retv = EmptyRetv]
                /\ UNCHANGED <<store, lru, locks>>
           ELSE IF ~IsCachedResult(store[k])
           THEN \* log.Panic; the deferred Unlock runs as the panic unwinds
                /\ wk' = [wk EXCEPT ![w].pc = "panic"]
                /\ lru' = Promote(lru, k)
                /\ Unlock(w, k)
                /\ UNCHANGED store
           ELSE LET m == store[k].Answers
                    dead == {e.v.Answer : e \in {x \in m : Expired(x.v, clock)}}
                    live == {e.v.Answer : e \in {x \in m : ~Expired(x.v, clock)}}
                IN  /\ store' = [store EXCEPT ![k] = CachedResult(MapDelete(m, dead))]
                    /\ lru' = Promote(lru, k)
                    /\ IF \E a \in live : a.Kind # "Answer"
                       THEN /\ wk' = [wk EXCEPT ![w].pc = "panic"]
                            /\ Unlock(w, k)
                       ELSE /\ wk' = [wk EXCEPT
                                       ![w].pc = "gl_unlock", ![w].ok = TRUE,
                                       ![w].now = clock,
                                       ![w].retv = SingleQueryResult({},
                                          {a \in live : a.RrType = "NS"},
                                          {a \in live : a.RrType \in {"A", "AAAA"}},
                                          "")]
                            /\ UNCHANGED locks
        /\ UNCHANGED <<calls, clock, hist, stats>>

\* the deferred Unlock, and the return: (res, true) whenever the entry
\* was found
LayerGetUnlock(w) ==
    LET s == wk[w]
    IN  /\ s.pc = "gl_unlock"
        /\ Unlock(w, s.key)
        /\ wk' = [wk EXCEPT ![w] = ReturnResult(s, s.retv, s.ok)]
        /\ UNCHANGED <<calls, clock, store, lru, hist, stats>>

Tick ==
    /\ clock < MaxTime
    /\ clock' = clock + 1
    /\ UNCHANGED <<calls, store, lru, locks, wk, hist, stats>>

\* -------------------------------------------------------- CacheStatistics
\* if s.ShouldCaptureStatistics { ... }: the flag is read, then the counter
\* is added to atomically.
Guarded(op) ==
    IF stats.ShouldCaptureStatistics
    THEN [Idle EXCEPT !.op = op, !.pc = "inc_add"]
    ELSE Idle

\* An increment that does not look at the capture flag.
IncrementHitsUnguarded(w) ==
    /\ Call(w)
    /\ wk' = [wk EXCEPT ![w] = [Idle EXCEPT !.op = "IncrementHits",
                                            !.pc = "inc_add"]]
    /\ UNCHANGED <<clock, store, lru, locks, hist, stats>>

IncrementHits(w) ==
    /\ Call(w)
    /\ wk' = [wk EXCEPT ![w] = Guarded("IncrementHits")]
    /\ UNCHANGED <<clock, store, lru, locks, hist, stats>>

IncrementMisses(w) ==
    /\ Call(w)
    /\ wk' = [wk EXCEPT ![w] = Guarded("IncrementMisses")]
    /\ UNCHANGED <<clock, store, lru, locks, hist, stats>>

IncrementAdds(w) ==
    /\ Call(w)
    /\ wk' = [wk EXCEPT ![w] = Guarded("IncrementAdds")]
    /\ UNCHANGED <<clock, store, lru, locks, hist, stats>>

IncrementEjects(w) ==
    /\ Call(w)
    /\ wk' = [wk EXCEPT ![w] = Guarded("IncrementEjects")]
    /\ UNCHANGED <<clock, store, lru, locks, hist, stats>>

\* s.Hits.Add(1), s.Misses.Add(1), s.Adds.Add(1), s.Ejects.Add(1)
AtomicAdd(w) ==
    /\ wk[w].pc = "inc_add"
    /\ stats' =
          CASE wk[w].op = "IncrementHits" -> [stats EXCEPT !.Hits = @ + 1]
            [] wk[w].op = "IncrementMisses" -> [stats EXCEPT !.Misses = @ + 1]
            [] wk[w].op = "IncrementAdds" -> [stats EXCEPT !.Adds = @ + 1]
            [] wk[w].op = "IncrementEjects" -> [stats EXCEPT !.Ejects = @ + 1]
    /\ wk' = [wk EXCEPT ![w] = Idle]
    /\ UNCHANGED <<calls, clock, store, lru, locks, hist>>

\* PrintStatistics loads the four counters and prints them.
PrintStatistics(w) ==
    /\ Call(w)
    /\ wk' = [wk EXCEPT ![w] = Idle]
    /\ UNCHANGED <<clock, store, lru, locks, hist, stats>>

\* ---------------------------------------------------------- input universe
RecA1 == Ans(ACom, "A", "d1", 1)
RecA1x == Ans(ACom, "A", "d1", MaxTTL)      \* RecA1 with another TTL
RecA2 == Ans(ACom, "A", "d2", MaxTTL)
RecNS == Ans(Com, "NS", "ns1", MaxTTL)
RecMX == Ans(ACom, "MX", "d1", MaxTTL)
RecOther == Val("Other", ACom, "A", "d1", 1)

\* Spec: concurrent AddCachedAnswer / GetCachedResult on two keys of one
\* shard and one key of another.
AddInputs == {<<RecA1, Nil>>, <<RecA2, Nil>>, <<RecA1, "N1">>, <<RecNS, Nil>>}
GetInputs == {<<Question(ACom, "A"), Nil>>, <<Question(ACom, "A"), "N1">>,
              <<Question(Com, "NS"), Nil>>}

AddSteps(w) ==
    \/ AddLock(w)
    \/ AddRead(w)
    \/ AddWrite(w)
    \/ AddUnlock(w)

GetSteps(w) ==
    \/ GetLock(w)
    \/ GetRead(w)
    \/ GetUnlock(w)

Next ==
    \/ Tick
    \/ \E w \in Workers :
          \/ \E i \in AddInputs : AddCachedAnswer(w, i[1], i[2])
          \/ \E i \in GetInputs : GetCachedResult(w, i[1], i[2])
          \/ AddSteps(w)
          \/ GetSteps(w)

Spec == Init /\ [][Next]_vars

\* SpecScoped: AddCachedAnswer / GetCachedResult of one question under
\* every nameserver scope, with a record re-added under another TTL.
ScopedAdds == {<<RecA1, "N1">>, <<RecA1x, "N1">>, <<RecA2, Nil>>, <<RecA2, "N2">>}
ScopedGets == {<<Question(ACom, "A"), ns>> : ns \in {Nil} \cup NameServers}

NextScoped ==
    \/ Tick
    \/ \E w \in Workers :
          \/ \E i \in ScopedAdds : AddCachedAnswer(w, i[1], i[2])
          \/ \E i \in ScopedGets : GetCachedResult(w, i[1], i[2])
          \/ AddSteps(w)
          \/ GetSteps(w)

SpecScoped == Init /\ [][NextScoped]_vars

\* SpecIngest: one worker feeding responses of zone com into the cache by
\* every entry point; each section of the response holds a record that
\* must be dropped in front of one that must be cached.
RecEvil == Ans(Org, "A", "d9", MaxTTL)       \* not beneath com

Zone == Com
IngestWorkers == {"w1"}
IngestResponses ==
    {Response(<<RecOther, RecA1>>, <<RecMX, RecNS>>, <<RecEvil, RecA2>>, auth) :
        auth \in BOOLEAN}
IngestSafeAdds == {RecEvil, RecA1}
IngestGets == {Question(ACom, "A"), Question(Org, "A"), Question(ACom, "MX")}

SafeSteps(w) ==
    \/ CacheUpdateNext(w)
    \/ AddSteps(w)

LayerSteps(w) ==
    \/ LayerLock(w)
    \/ LayerWrite(w)
    \/ LayerUnlock(w)
    \/ LayerGetLock(w)
    \/ LayerGetRead(w)
    \/ LayerGetUnlock(w)

NextIngest ==
    \/ Tick
    \/ \E w \in IngestWorkers :
          \/ AddCachedAnswer(w, RecMX, Nil)
          \/ \E a \in IngestSafeAdds : SafeAddCachedAnswer(w, a, Nil, Zone)
          \/ \E r \in IngestResponses, c \in BOOLEAN : CacheUpdate(w, Zone, r, Nil, c)
          \/ \E r \in IngestResponses : SafeAddLayerNameServers(w, Zone, r, Nil, FALSE)
          \/ \E q \in IngestGets : GetCachedResult(w, q, Nil)
          \/ GetLayerNameServers(w, Zone)
          \/ SafeSteps(w)
          \/ GetSteps(w)
          \/ LayerSteps(w)

SpecIngest == Init /\ [][NextIngest]_vars

\* SpecLayer: concurrent SafeAddLayerNameServers / GetLayerNameServers of
\* zone com with two different delegation responses, beside ordinary
\* answers for the same question.
RecNS2 == Ans(Com, "NS", "ns2", 1)
RecGlue == Ans(<<"ns1", "com">>, "A", "d1", 1)
ResA == Response(<<>>, <<RecNS>>, <<RecGlue>>, FALSE)
ResB == Response(<<>>, <<RecNS2, RecMX>>, <<>>, FALSE)
LayerResponses == {ResA, ResB}

NextLayer ==
    \/ Tick
    \/ \E w \in Workers :
          \/ \E r \in LayerResponses, ns \in NameServers :
                SafeAddLayerNameServers(w, Zone, r, ns, FALSE)
          \/ GetLayerNameServers(w, Zone)
          \/ AddCachedAnswer(w, RecNS, Nil)
          \/ GetCachedResult(w, Question(Com, "NS"), Nil)
          \/ AddSteps(w)
          \/ GetSteps(w)
          \/ LayerSteps(w)

SpecLayer == Init /\ [][NextLayer]_vars

\* SpecZero: concurrent AddCachedAnswer / GetCachedResult of one question
\* with a record whose TTL is 0 beside one whose TTL is positive.
RecZero == Ans(ACom, "A", "d0", 0)
ZeroAdds == {<<RecZero, Nil>>, <<RecA1, Nil>>}

NextZero ==
    \/ Tick
    \/ \E w \in Workers :
          \/ \E i \in ZeroAdds : AddCachedAnswer(w, i[1], i[2])
          \/ GetCachedResult(w, Question(ACom, "A"), Nil)
          \/ AddSteps(w)
          \/ GetSteps(w)

SpecZero == Init /\ [][NextZero]_vars

\* SpecCorrupt: the store is an exported field of Cache, so code outside
\* the six operations can Add a value of another shape under a cache key;
\* the operations then meet it.
Foreign == [Shape |-> "other", Answers |-> {}]      \* not a CachedResult
ForeignSnapshot ==     \* a CachedResult whose record is not an Answer
    CachedResult({[k |-> RecOther, v |-> TimedAnswer(RecOther, MaxTime)]})

ForeignAdds ==
    {<<ScopeKey(RecA1, Nil), Foreign>>, <<LayerKey(Zone), Foreign>>,
     <<LayerKey(Zone), ForeignSnapshot>>}

\* IterativeCache.Lock(k); IterativeCache.Add(k, v); IterativeCache.Unlock(k)
\* by a caller outside Cache
StoreForeign(w, k, v) ==
    /\ Call(w)
    /\ locks[ShardOf(k)] = "free"
    /\ store' = StoreAfterAdd(k, v)
    /\ lru' = LruAfterAdd(k)
    /\ wk' = [wk EXCEPT ![w] = Idle]
    /\ writes' = Surviving(Victims(k))
    /\ lastLayer' = {e \in lastLayer : LayerKey(e.layer) \notin Victims(k) \cup {k}}
    /\ UNCHANGED <<clock, locks, added, stats>>

NextCorrupt ==
    \/ Tick
    \/ \E w \in Workers :
          \/ \E i \in ForeignAdds : StoreForeign(w, i[1], i[2])
          \/ AddCachedAnswer(w, RecA1, Nil)
          \/ GetCachedResult(w, Question(ACom, "A"), Nil)
          \/ GetLayerNameServers(w, Zone)
          \/ AddSteps(w)
          \/ GetSteps(w)
          \/ LayerGetLock(w)
          \/ LayerGetRead(w)
          \/ LayerGetUnlock(w)

SpecCorrupt == Init /\ [][NextCorrupt]_vars

\* SpecFair: the four locking operations on two keys of one shard, on
\* every exit path (miss, hit, empty after expiry, filtered input), under
\* fair scheduling: a worker that can take a step takes one, and a worker
\* waiting for a mutex that keeps becoming free gets it.
NextFair ==
    \/ Tick
    \/ \E w \in Workers :
          \/ \E a \in {RecA1, RecMX} : AddCachedAnswer(w, a, Nil)
          \/ GetCachedResult(w, Question(ACom, "A"), Nil)
          \/ SafeAddLayerNameServers(w, Zone, ResB, Nil, FALSE)
          \/ GetLayerNameServers(w, Zone)
          \/ AddSteps(w)
          \/ GetSteps(w)
          \/ LayerSteps(w)

LockStep(w) == AddLock(w) \/ GetLock(w) \/ LayerLock(w) \/ LayerGetLock(w)

LockedStep(w) ==
    \/ AddRead(w) \/ AddWrite(w) \/ AddUnlock(w)
    \/ GetRead(w) \/ GetUnlock(w)
    \/ LayerWrite(w) \/ LayerUnlock(w)
    \/ LayerGetRead(w) \/ LayerGetUnlock(w)

Fairness ==
    \A w \in Workers : WF_vars(LockedStep(w)) /\ SF_vars(LockStep(w))

SpecFair == Init /\ [][NextFair]_vars /\ Fairness

\* SpecStats: concurrent Increment* calls on one CacheStatistics, with the
\* capture flag on or off.
NextStats ==
    \E w \in Workers :
        \/ IncrementHits(w)
        \/ IncrementMisses(w)
        \/ IncrementAdds(w)
        \/ IncrementEjects(w)
        \/ AtomicAdd(w)
        \/ PrintStatistics(w)

SpecStats == InitStats /\ [][NextStats]_vars

\* ------------------------------------------------------------------ claims
\* A worker that has walked the entry of its GetCachedResult and still
\* holds the shard lock: retv is what the call is about to return, and no
\* other worker can have touched the entry since.
Reading(w) == wk[w].op = "GetCachedResult" /\ wk[w].pc = "get_unlock"

Returned(w) == wk[w].op = "GetCachedResult" /\ wk[w].pc = "done"

\* The upserts recorded for the question and scope worker w reads.
WritesFor(w) ==
    {e \in writes : /\ e.ns = wk[w].ns
                    /\ e.ans.Name = wk[w].q.Name
                    /\ e.ans.RrType = wk[w].q.Type}

\* C1: no lost updates.  Every answer upserted under a key (by whichever
\* worker, in whichever interleaving), whose last written expiry lies
\* after the instant of a later GetCachedResult of that key and whose entry
\* was not evicted, is among the answers that read returns.
C1_NoLostUpdates ==
    \A w \in Workers :
        Reading(w) =>
            \A e \in WritesFor(w) :
                e.last > wk[w].now => e.ans \in wk[w].retv.Answers

\* Two distinct answers of one key, written by two adds, both returned.
C1_Witness ==
    \E w \in Workers :
        /\ Reading(w)
        /\ {RecA1, RecA2} \subseteq wk[w].retv.Answers
        /\ {RecA1, RecA2} \subseteq {e.ans : e \in WritesFor(w)}

\* C3: live window.  An answer with TTL > 0 added at t0 is returned by
\* every GetCachedResult of its question and scope at an instant t with
\* t0 <= t < t0 + TTL, unless its entry was evicted.
C3_LiveWindow ==
    \A w \in Workers :
        Reading(w) =>
            \A e \in WritesFor(w) :
                (e.ans.TTL > 0 /\ wk[w].now < e.max)
                    => e.ans \in wk[w].retv.Answers

\* C4: expiry.  A GetCachedResult at an instant t >= t0 + TTL (t0 the
\* latest add of the answer) does not return the answer and leaves it
\* deleted from the stored entry.
C4_Expiry ==
    \A w \in Workers :
        Reading(w) =>
            \A e \in WritesFor(w) :
                (e.ans.TTL > 0 /\ wk[w].now >= e.max)
                    => /\ e.ans \notin wk[w].retv.Answers
                       /\ wk[w].key \in DOMAIN store
                            => e.ans \notin MapKeys(store[wk[w].key].Answers)

\* C10: GetCachedResult never surfaces an empty hit.  found = TRUE comes
\* with a non-empty Answers; a miss, or an entry whose answers have all
\* expired, comes back as found = FALSE with the empty result; and an
\* answer handed out was unexpired at the instant of the read.
C10_NoEmptyHit ==
    \A w \in Workers :
        /\ Returned(w) =>
              /\ wk[w].found => wk[w].retv.Answers # {}
              /\ ~wk[w].found => wk[w].retv = EmptyRetv
        /\ Reading(w) =>
              \A a \in wk[w].retv.Answers :
                  \E e \in WritesFor(w) : e.ans = a /\ e.last >= wk[w].now

\* A read of an entry that is present but holds no live answer any more
\* has come back as a miss.
C10_Witness ==
    \E w \in Workers :
        /\ Returned(w)
        /\ ~wk[w].found
        /\ ScopeKey(RecA1, wk[w].ns) \in DOMAIN store
        /\ wk[w].q = Question(ACom, "A")
        /\ store[ScopeKey(RecA1, wk[w].ns)].Answers = {}

\* name is zone or ends in a label boundary followed by zone
InZone(name, zone) ==
    \E i \in 0 .. Len(name) : SubSeq(name, i + 1, Len(name)) = zone

InAddCachedAnswer(w) ==
    wk[w].pc \in {"add_lock", "add_read", "add_write", "add_unlock"}

\* C2: poisoning guard.  SafeAddCachedAnswer (called directly or by
\* CacheUpdate) does not enter AddCachedAnswer with an answer whose owner
\* name is neither zoneLayer nor a subdomain of it; no upsert ever made
\* through it is of such an answer; and every answer GetCachedResult hands
\* out was upserted under the scope of the read, directly or with a
\* zoneLayer it lies beneath.  With all ingestion for zone com, no answer
\* outside com is ever returned.
C2_PoisonGuard ==
    /\ \A w \in Workers :
          (wk[w].op \in {"SafeAddCachedAnswer", "CacheUpdate"} /\ InAddCachedAnswer(w))
              => InZone(wk[w].answer.Name, wk[w].layer)
    /\ \A e \in added : e.via.safe => InZone(e.ans.Name, e.via.layer)
    /\ \A w \in Workers :
          (Reading(w) \/ Returned(w)) =>
              \A a \in wk[w].retv.Answers :
                  /\ InZone(a.Name, Zone)
                  /\ \E e \in added :
                        /\ e.ans = a
                        /\ e.ns = wk[w].ns
                        /\ e.via.safe => InZone(a.Name, e.via.layer)

\* CacheUpdate has put the poisoned record of the Additional section
\* through SafeAddCachedAnswer and has cached nothing for it.
C2_Witness ==
    \E w \in Workers :
        /\ wk[w].op = "CacheUpdate"
        /\ wk[w].pc = "cu_next"
        /\ RecEvil \in Range(wk[w].result.Additional)
        /\ RecEvil \notin Range(wk[w].todo)
        /\ wk[w].wrote = {}
        /\ \A k \in DOMAIN store : RecEvil \notin MapKeys(store[k].Answers)

\* The records of a response section set that SafeAddLayerNameServers admits.
Admitted(result) ==
    {x \in Range(result.Authorities) \cup Range(result.Additional) :
        x.Kind = "Answer" /\ x.RrType \in {"NS", "A", "AAAA"}}

LayerReading(w) ==
    wk[w].op = "GetLayerNameServers" /\ wk[w].pc = "gl_unlock" /\ wk[w].ok

\* C5: delegation snapshot replacement.  The snapshot stored for a zone
\* holds only records admitted from the response of the one call that
\* wrote it last, and GetLayerNameServers returns of that response's
\* admitted records all that are still live and none that has expired:
\* never a record of an earlier response.
C5_SnapshotReplaced ==
    /\ \A e \in lastLayer :
          LayerKey(e.layer) \in DOMAIN store =>
              MapKeys(store[LayerKey(e.layer)].Answers) \subseteq Admitted(e.result)
    /\ \A w \in Workers :
          LayerReading(w) =>
              /\ \E e \in lastLayer : e.layer = wk[w].layer
              /\ \A e \in lastLayer :
                    e.layer = wk[w].layer =>
                        LET got == wk[w].retv.Authorities \cup wk[w].retv.Additional
                        IN  /\ got \subseteq {a \in Admitted(e.result) :
                                                wk[w].now <= e.now + a.TTL}
                            /\ {a \in Admitted(e.result) :
                                   wk[w].now < e.now + a.TTL} \subseteq got

\* resultB has replaced resultA, and the read returns resultB's NS record
\* alone.
C5_Witness ==
    \E w \in Workers :
        /\ LayerReading(w)
        /\ \E e \in lastLayer :
              e.layer = wk[w].layer /\ e.result = ResB /\ e.prev = ResA
        /\ wk[w].retv.Authorities = {RecNS2}
        /\ wk[w].retv.Additional = {}

\* The records of a set that SafeAddCachedAnswer with zoneLayer caches.
Eligible(records, zoneLayer) ==
    {x \in records : /\ x.Kind = "Answer"
                     /\ InZone(x.Name, zoneLayer)
                     /\ x.RrType \in {"A", "AAAA", "NS", "CNAME", "DNAME"}}

\* What a CacheUpdate call with these arguments is to cache.
ToCache(result, zoneLayer, includeNonAuthoritative) ==
    Eligible(Range(result.Additional) \cup Range(result.Authorities)
                \cup (IF result.Flags.Authoritative \/ includeNonAuthoritative
                      THEN Range(result.Answers) ELSE {}),
             zoneLayer)

\* C6: authoritative gating.  A CacheUpdate call upserts only records it
\* is to cache, and when it returns it has upserted exactly those: the
\* admissible in-zone records of Authority and Additional always, those
\* of the Answer section only with Flags.Authoritative or
\* includeNonAuthoritative; each is then stored under its question.
C6_AuthoritativeGating ==
    \A w \in Workers :
        wk[w].op = "CacheUpdate" =>
            LET exp == ToCache(wk[w].result, wk[w].layer, wk[w].nonAuth)
            IN  /\ wk[w].wrote \subseteq exp
                /\ wk[w].pc = "done" =>
                      /\ wk[w].wrote = exp
                      /\ \A a \in exp :
                            ScopeKey(a, wk[w].ns) \in DOMAIN store =>
                                a \in MapKeys(store[ScopeKey(a, wk[w].ns)].Answers)

\* A non-authoritative response without opt-in: the Answer section's
\* record was left out, the Additional section's was cached.
C6_Witness ==
    \E w \in Workers :
        /\ wk[w].op = "CacheUpdate"
        /\ wk[w].pc = "done"
        /\ ~wk[w].result.Flags.Authoritative
        /\ ~wk[w].nonAuth
        /\ RecA1 \in Range(wk[w].result.Answers)
        /\ RecA1 \notin wk[w].wrote
        /\ RecA2 \in wk[w].wrote

\* C7: nameserver scoping.  An answer GetCachedResult hands out was added
\* under exactly the scope (nameserver, or none) of the read, and a read
\* scoped to a nameserver returns every live answer added under it.
C7_NameserverScoping ==
    \A w \in Workers :
        /\ (Reading(w) \/ Returned(w)) =>
              \A a \in wk[w].retv.Answers :
                  \E e \in added : e.ans = a /\ e.ns = wk[w].ns
        /\ (Reading(w) /\ wk[w].ns \in NameServers) =>
              \A e \in WritesFor(w) :
                  e.last > wk[w].now => e.ans \in wk[w].retv.Answers

\* RecA1 is live under N1, and a read scoped to N2 came back without it.
C7_Witness ==
    \E w \in Workers :
        /\ Returned(w)
        /\ wk[w].ns = "N2"
        /\ RecA1 \notin wk[w].retv.Answers
        /\ \E e \in writes : e.ans = RecA1 /\ e.ns = "N1" /\ e.last > clock
        /\ ScopeKey(RecA1, "N1") \in DOMAIN store

\* C8: record-type admission.  No stored entry holds a record of a type
\* outside A, AAAA, NS, CNAME, DNAME (outside NS, A, AAAA in a delegation
\* snapshot); GetCachedResult returns none; GetLayerNameServers returns NS
\* records as Authorities, A and AAAA records as Additional, nothing else.
C8_TypeAdmission ==
    /\ \A k \in DOMAIN store :
          \A e \in store[k].Answers :
              IF k.IsAuthority
              THEN e.k.RrType \in {"NS", "A", "AAAA"}
              ELSE e.k.RrType \in {"A", "AAAA", "NS", "CNAME", "DNAME"}
    /\ \A w \in Workers :
          /\ wk[w].op = "GetCachedResult" =>
                \A a \in wk[w].retv.Answers :
                    a.RrType \in {"A", "AAAA", "NS", "CNAME", "DNAME"}
          /\ wk[w].op = "GetLayerNameServers" =>
                /\ \A a \in wk[w].retv.Authorities : a.RrType = "NS"
                /\ \A a \in wk[w].retv.Additional : a.RrType \in {"A", "AAAA"}
                /\ wk[w].retv.Answers = {}

\* The snapshot was written from a response with an MX record in its
\* Authority section, and the read returned the NS record without it.
C8_Witness ==
    \E w \in Workers :
        /\ wk[w].op = "GetLayerNameServers"
        /\ wk[w].pc = "done"
        /\ wk[w].found
        /\ \E e \in lastLayer : RecMX \in Range(e.result.Authorities)
        /\ wk[w].retv.Authorities = {RecNS}

\* The canonical identity of an answer: name, type and data, not the TTL.
Identity(a) == <<a.Name, a.RrType, a.Answer>>

\* C9: identity de-duplication.  No entry holds two answers of one
\* identity, and GetCachedResult returns an answer of an identity once.
C9_IdentityDedup ==
    /\ \A k \in DOMAIN store :
          \A e1, e2 \in store[k].Answers :
              Identity(e1.k) = Identity(e2.k) => e1 = e2
    /\ \A w \in Workers :
          (Reading(w) \/ Returned(w)) =>
              \A a1, a2 \in wk[w].retv.Answers :
                  Identity(a1) = Identity(a2) => a1 = a2

LayerReturned(w) == wk[w].op = "GetLayerNameServers" /\ wk[w].pc = "done"

\* C11: GetLayerNameServers never surfaces an empty hit.  found = TRUE
\* comes with at least one record in Authorities or Additional; a snapshot
\* that holds no live record comes back as found = FALSE.
C11_NoEmptyLayerHit ==
    \A w \in Workers :
        (LayerReturned(w) /\ wk[w].found) =>
            wk[w].retv.Authorities \cup wk[w].retv.Additional # {}

\* C12: an answer inserted with TTL <= 0 is already expired.  No
\* GetCachedResult, at the instant of the insertion or later, returns it.
C12_ZeroTTLExpired ==
    \A w \in Workers :
        (Reading(w) \/ Returned(w)) =>
            \A a \in wk[w].retv.Answers : a.TTL > 0

\* C13: corrupt entry recovery.  No cache operation ever aborts the
\* process: whatever is stored under its key, no worker ends in a panic.
C13_CorruptRecovery == \A w \in Workers : wk[w].pc # "panic"

\* A worker inside an operation / at a point where it holds its lock.
Busy(w) == wk[w].pc \notin {"idle", "done"}

Holding(w) ==
    wk[w].pc \in {"add_read", "add_write", "add_unlock", "get_read", "get_unlock",
                  "ls_write", "ls_unlock", "gl_read", "gl_unlock"}

LockDiscipline ==
    /\ \A w \in Workers : Holding(w) => locks[ShardOf(wk[w].key)] = w
    /\ \A sh \in Shards, w \in Workers :
          locks[sh] = w => Holding(w) /\ sh = ShardOf(wk[w].key)

\* C14: lock discipline and progress.  A worker holds the lock of its own
\* key between its Lock and its Unlock and no lock otherwise (none once it
\* has returned, on whichever exit path), and every operation invoked
\* eventually returns.
C14_LockDisciplineProgress ==
    /\ []LockDiscipline
    /\ \A w \in Workers : Busy(w) ~> ~Busy(w)

\* One worker waits for the mutex another holds for a different key of the
\* same shard.
C14_Witness ==
    \E w, v \in Workers :
        /\ w # v
        /\ wk[w].pc = "get_lock"
        /\ wk[v].pc = "ls_write"
        /\ locks[ShardOf(wk[w].key)] = v
        /\ wk[w].key # wk[v].key

\* C15: statistics wiring.  With the capture flag enabled, a read that
\* returns found = TRUE raises Hits by one, a read that returns
\* found = FALSE raises Misses by one, and a write of AddCachedAnswer or
\* SafeAddLayerNameServers raises Adds by one.
C15_StatisticsWired ==
    [][\A w \in Workers :
          /\ (wk[w].pc \in {"get_unlock", "gl_unlock"} /\ wk'[w].pc = "done") =>
                IF wk'[w].found
                THEN stats'.Hits = stats.Hits + 1 /\ stats'.Misses = stats.Misses
                ELSE stats'.Misses = stats.Misses + 1 /\ stats'.Hits = stats.Hits
          /\ (wk[w].pc \in {"add_write", "ls_write"} /\ wk'[w].pc # wk[w].pc) =>
                stats'.Adds = stats.Adds + 1]_vars

Counters == {"Hits", "Misses", "Adds", "Ejects"}

CounterOf(op) ==
    CASE op = "IncrementHits" -> "Hits"
      [] op = "IncrementMisses" -> "Misses"
      [] op = "IncrementAdds" -> "Adds"
      [] op = "IncrementEjects" -> "Ejects"

InIncrement(w) == wk[w].pc = "inc_add"

\* C16: the counters are monotone.  No step lowers a counter; with the
\* capture flag off no step changes one and no call gets to its Add; with
\* it on every Increment* call gets to its Add, which raises the call's own
\* counter by exactly one and leaves the other three alone; and nothing
\* else changes a counter.
C16_CountersMonotone ==
    [][/\ \A c \in Counters : stats'[c] >= stats[c]
       /\ ~stats.ShouldCaptureStatistics =>
             /\ \A c \in Counters : stats'[c] = stats[c]
             /\ \A w \in Workers : ~InIncrement(w)'
       /\ \A w \in Workers :
             /\ (InIncrement(w) /\ ~InIncrement(w)') =>
                   \A c \in Counters :
                       stats'[c] = stats[c] + (IF c = CounterOf(wk[w].op) THEN 1 ELSE 0)
             /\ (stats.ShouldCaptureStatistics /\ calls' = calls + 1
                   /\ wk'[w] # wk[w] /\ wk'[w].op # "none") => InIncrement(w)'
       /\ (\E c \in Counters : stats'[c] # stats[c]) =>
             \E w \in Workers : InIncrement(w) /\ ~InIncrement(w)']_vars

\* Both workers have incremented Hits and one has gone on to Ejects.
C16_Witness ==
    /\ stats.ShouldCaptureStatistics
    /\ stats.Hits = 2
    /\ stats.Ejects = 1

\* The records of a stored snapshot whose ExpiresAt has not passed at now.
Unexpired(snapshot, now) == {e \in snapshot : e.v.ExpiresAt >= now}

AddedUnder(k) == {e.ans : e \in {x \in added : ScopeKey(x.ans, x.ns) = k}}

\* C18: authority-entry isolation.  An ordinary entry holds, and
\* GetCachedResult returns, only answers upserted by AddCachedAnswer under
\* the entry's own key; a delegation snapshot holds, and GetLayerNameServers
\* returns, only records admitted from the response of a
\* SafeAddLayerNameServers call for that zone; an upsert leaves every
\* snapshot as it was, and a snapshot write leaves every ordinary entry as
\* it was.
C18_AuthorityIsolation ==
    /\ [](/\ \A k \in DOMAIN store :
               IF k.IsAuthority
               THEN \E e \in lastLayer :
                        /\ LayerKey(e.layer) = k
                        /\ MapKeys(store[k].Answers) \subseteq Admitted(e.result)
               ELSE MapKeys(store[k].Answers) \subseteq AddedUnder(k)
          /\ \A w \in Workers :
               /\ (Reading(w) \/ Returned(w)) =>
                     wk[w].retv.Answers \subseteq
                         AddedUnder(CachedKey(wk[w].q, IF wk[w].ns = Nil THEN ""
                                                       ELSE wk[w].ns, FALSE))
               /\ LayerReading(w) =>
                     \E e \in lastLayer :
                         /\ e.layer = wk[w].layer
                         /\ wk[w].retv.Authorities \cup wk[w].retv.Additional
                                \subseteq Admitted(e.result))
    /\ [][\A w \in Workers, k \in DOMAIN store \cap DOMAIN store' :
             /\ (wk[w].pc = "add_write" /\ wk'[w].pc = "add_unlock" /\ k.IsAuthority)
                   => store'[k] = store[k]
             /\ (wk[w].pc = "ls_write" /\ wk'[w].pc = "ls_unlock" /\ ~k.IsAuthority)
                   => store'[k] = store[k]]_vars

\* The snapshot of zone com holds its NS record, written at an earlier
\* clock reading, and GetCachedResult for Question{com, NS} finds nothing.
C18_Witness ==
    \E w \in Workers :
        /\ Reading(w)
        /\ wk[w].q = Question(Com, "NS")
        /\ ~wk[w].ok
        /\ LayerKey(Com) \in DOMAIN store
        /\ RecNS \in MapKeys(store[LayerKey(Com)].Answers)
        /\ \E e \in lastLayer : e.layer = Com /\ e.now < wk[w].now

\* The records a CacheUpdate call has not dealt with yet: those still to
\* come and the one on its way through AddCachedAnswer.
Pending(w) ==
    Range(wk[w].todo)
        \cup (IF wk[w].pc \in {"add_lock", "add_read", "add_write"}
              THEN {wk[w].answer} ELSE {})

\* C19: filtering in CacheUpdate is per record.  At every point of a
\* CacheUpdate call the records upserted so far are exactly the records
\* to cache that the call has dealt with: a poisoned, unrecognized or
\* inadmissible record met on the way has taken no other record with it.
\* Each one is then returned by a GetCachedResult of its question while it
\* is unexpired.
C19_PerRecordFiltering ==
    \A w \in Workers :
        /\ wk[w].op = "CacheUpdate" =>
              wk[w].wrote =
                  ToCache(wk[w].result, wk[w].layer, wk[w].nonAuth) \ Pending(w)
        /\ Reading(w) =>
              \A e \in WritesFor(w) :
                  e.last > wk[w].now => e.ans \in wk[w].retv.Answers

\* RecA2, which follows the poisoned record in the Additional section,
\* comes back from GetCachedResult; the poisoned record was never upserted.
C19_Witness ==
    \E w \in Workers :
        /\ Returned(w)
        /\ wk[w].found
        /\ RecA2 \in wk[w].retv.Answers
        /\ \E e \in added : e.ans = RecA2 /\ e.via.safe
        /\ \A e \in added : e.ans # RecEvil

\* C20: the delegation snapshot is keyed by zone only.  Every snapshot is
\* stored under a key without nameserver; a SafeAddLayerNameServers write,
\* whatever its nameserver argument, leaves under the zone's key exactly
\* the records admitted from its own response; and GetLayerNameServers
\* returns the live records of the call that wrote last, whichever
\* nameserver it named.
C20_SnapshotKeyedByZone ==
    /\ [](/\ \A k \in DOMAIN store : k.IsAuthority => k.NameServer = ""
          /\ \A w \in Workers :
                LayerReading(w) =>
                    \E e \in lastLayer :
                        /\ e.layer = wk[w].layer
                        /\ {a \in Admitted(e.result) : wk[w].now < e.now + a.TTL}
                              \subseteq wk[w].retv.Authorities
                                            \cup wk[w].retv.Additional)
    /\ [][\A w \in Workers :
             (wk[w].pc = "ls_write" /\ wk'[w].pc = "ls_unlock") =>
                 /\ CachedKey(Question(wk[w].layer, "NS"), "", TRUE) \in DOMAIN store'
                 /\ MapKeys(store'[CachedKey(Question(wk[w].layer, "NS"), "", TRUE)].Answers)
                        = Admitted(wk[w].result)]_vars

\* The snapshot a call with nameserver N1 stored from resultA was replaced
\* by a call with nameserver N2 and resultB, and the read returns resultB's
\* NS record.
C20_Witness ==
    \E w \in Workers :
        /\ LayerReading(w)
        /\ \E e \in lastLayer :
              /\ e.layer = wk[w].layer
              /\ e.ns = "N2" /\ e.result = ResB
              /\ e.prevNs = "N1" /\ e.prev = ResA
        /\ wk[w].retv.Authorities = {RecNS2}

====
